---------------------------- MODULE Spec2Model ----------------------------
(***************************************************************************)
(* A model of pyvene/models/modeling_utils.py: the dimension resolver, the *)
(* hook resolver, the flatten/unflatten helpers, gather_neurons,           *)
(* scatter_neurons and do_intervention.                                    *)
(*                                                                         *)
(* A tensor is a record [shape, data]: shape is the sequence of its axis   *)
(* sizes and data its elements in row-major (logical) order, so that       *)
(* reshape keeps data and changes shape, and permute recomputes data.      *)
(* Indices and locations are 0-based, as in the source.                    *)
(* The functions are pure (scatter_neurons apart, which writes in place):  *)
(* each specification draws a call's arguments in its Init and its actions *)
(* apply the functions; raised holds the exception a call ended with.      *)
(***************************************************************************)
EXTENDS Integers, Sequences, FiniteSets, TLC

VARIABLES
    pc,                      \* the last function applied
    raised,                  \* "none", or the exception the last call raised
    \* bsd_to_b_sd / b_sd_to_bsd / bhsd_to_bs_hd / bs_hd_to_bhsd
    tensor,                  \* the argument of the flattening helper
    flattened,               \* what the flattening helper returned
    restored,                \* what the unflattening helper returned
    num_arg,                 \* the s (or h) handed to the unflattening helper
    \* gather_neurons / scatter_neurons
    tensor_input,            \* the activation tensor, written in place by scatter
    before,                  \* the contents of tensor_input before the calls
    replacing_tensor_input,
    component,
    unit,
    unit_locations_as_list,
    use_fast,
    tensor_output,           \* what gather_neurons returned
    returned,                \* what scatter_neurons returned
    call_model_type,         \* the arguments of get_dimension_by_component
    call_model_config,
    dimension,               \* what get_dimension_by_component returned
    call_model,              \* the arguments of get_module_hook
    call_representation,
    call_backend,
    module_hook,             \* what get_module_hook returned
    base_representation,     \* the arguments of do_intervention
    source_representation,
    call_intervention,
    invoked,                 \* whether do_intervention called the intervention
    base_representation_f,   \* the base the intervention was given
    intervention_output      \* what do_intervention returned

flat_vars == <<tensor, flattened, restored, num_arg>>

gs_vars == <<tensor_input, before, replacing_tensor_input, component, unit,
             unit_locations_as_list, use_fast, tensor_output, returned>>

dim_vars == <<call_model_type, call_model_config, dimension>>

hook_vars == <<call_model, call_representation, call_backend, module_hook>>

do_vars == <<base_representation, source_representation, call_intervention,
             invoked, base_representation_f, intervention_output>>

vars == <<pc, raised, flat_vars, gs_vars, dim_vars, hook_vars, do_vars>>

---------------------------------------------------------------------------
(* Bounds *)

\* largest size of a batch, head or sequence axis
MaxAxis == 2
\* largest size of the last (feature) axis
MaxDim == 2
\* tensors are filled seed, seed+1, ... (all elements distinct): seeds 0..MaxSeed
MaxSeed == 1

\* a head (or an unsplit member of a fused triple) has 1..MaxPerHead features
MaxPerHead == 1

---------------------------------------------------------------------------
(* Tensors *)

RECURSIVE Prod(_)
Prod(s) == IF s = <<>> THEN 1 ELSE Head(s) * Prod(Tail(s))

RECURSIVE Dot(_, _)
Dot(a, b) == IF a = <<>> THEN 0 ELSE Head(a) * Head(b) + Dot(Tail(a), Tail(b))

numel(shape) == Prod(shape)

\* the row-major strides of a shape
Strides(shape) ==
    [i \in 1..Len(shape) |-> Prod(SubSeq(shape, i + 1, Len(shape)))]

\* the multi-index of the k-th element (k from 0) and back
Unravel(k, shape) ==
    [i \in 1..Len(shape) |-> (k \div Strides(shape)[i]) % shape[i]]

Ravel(idx, shape) == Dot(idx, Strides(shape))

At(t, idx) == t.data[Ravel(idx, t.shape) + 1]

\* no tensor: None
NoTensor == [shape |-> <<>>, data |-> <<>>]

Ok(t) == [raised |-> "none", value |-> t]

Raise(kind) == [raised |-> kind, value |-> NoTensor]

\* torch.arange-like fill: the elements are seed, seed+1, ...
Filled(shape, seed) ==
    [shape |-> shape, data |-> [k \in 1..numel(shape) |-> seed + k - 1]]

\* tensor.reshape(*shape) / tensor.view(*shape) of a contiguous tensor
reshape(t, shape) ==
    IF numel(shape) = numel(t.shape)
    THEN Ok([shape |-> shape, data |-> t.data])
    ELSE Raise("RuntimeError")

\* tensor.permute(*dims): axis i of the result is axis dims[i] of t (dims from 0)
permute(t, dims) ==
    IF Len(dims) # Len(t.shape)
    THEN Raise("RuntimeError")
    ELSE LET shape == [i \in 1..Len(dims) |-> t.shape[dims[i] + 1]]
             src(k) == LET m == Unravel(k, shape)
                       IN  [a \in 1..Len(dims) |->
                              m[CHOOSE i \in 1..Len(dims) : dims[i] + 1 = a]]
         IN  Ok([shape |-> shape,
                 data  |-> [k \in 1..numel(shape) |-> At(t, src(k - 1))]])

---------------------------------------------------------------------------
(* Flattening helpers *)

bsd_to_b_sd(t) ==
    IF t = NoTensor THEN Ok(t)
    ELSE IF Len(t.shape) # 3 THEN Raise("ValueError")
    ELSE LET b == t.shape[1]
             s == t.shape[2]
             d == t.shape[3]
         IN  reshape(t, <<b, s * d>>)

b_sd_to_bsd(t, s) ==
    IF t = NoTensor THEN Ok(t)
    ELSE IF Len(t.shape) # 2 THEN Raise("ValueError")
    ELSE IF s = 0 THEN Raise("ZeroDivisionError")
    ELSE LET b  == t.shape[1]
             sd == t.shape[2]
             d  == sd \div s
         IN  reshape(t, <<b, s, d>>)

\* the heads merged into the last axis without the permute
bhsd_to_bs_hd_no_permute(t) ==
    IF t = NoTensor THEN Ok(t)
    ELSE IF Len(t.shape) # 4 THEN Raise("ValueError")
    ELSE reshape(t, <<t.shape[1], t.shape[3], t.shape[2] * t.shape[4]>>)

bhsd_to_bs_hd(t) ==
    IF t = NoTensor THEN Ok(t)
    ELSE IF Len(t.shape) # 4 THEN Raise("ValueError")
    ELSE LET b == t.shape[1]
             h == t.shape[2]
             s == t.shape[3]
             d == t.shape[4]
             p == permute(t, <<0, 2, 1, 3>>)
         IN  reshape(p.value, <<b, s, h * d>>)

\* the heads split off the last axis without the permute
bs_hd_to_bhsd_no_permute(t, h) ==
    IF t = NoTensor THEN Ok(t)
    ELSE IF Len(t.shape) # 3 THEN Raise("ValueError")
    ELSE IF h = 0 THEN Raise("ZeroDivisionError")
    ELSE reshape(t, <<t.shape[1], h, t.shape[2], t.shape[3] \div h>>)

bs_hd_to_bhsd(t, h) ==
    IF t = NoTensor THEN Ok(t)
    ELSE IF Len(t.shape) # 3 THEN Raise("ValueError")
    ELSE IF h = 0 THEN Raise("ZeroDivisionError")
    ELSE LET b  == t.shape[1]
             s  == t.shape[2]
             hd == t.shape[3]
             d  == hd \div h
             r  == reshape(t, <<b, s, h, d>>)
         IN  IF r.raised # "none" THEN r
             ELSE permute(r.value, <<0, 2, 1, 3>>)

---------------------------------------------------------------------------
(* Indexing primitives of torch used by gather_neurons and scatter_neurons *)

Max2(a, b) == IF a >= b THEN a ELSE b

\* torch.tensor(list of rows): an index tensor of shape (rows, columns)
torch_tensor(rows) ==
    LET k == Len(rows[1])
    IN  [shape |-> <<Len(rows), k>>,
         data  |-> [n \in 1..(Len(rows) * k) |->
                      rows[((n - 1) \div k) + 1][((n - 1) % k) + 1]]]

\* torch.arange(n).unsqueeze(1)
batch_idx(n) == [shape |-> <<n, 1>>, data |-> [k \in 1..n |-> k - 1]]

\* a Python int used as an index: a 0-dimensional index tensor
scalar_idx(v) == [shape |-> <<>>, data |-> <<v>>]

\* t[-1] in place of t[0]
last_row(t) ==
    [shape |-> <<t.shape[2]>>,
     data  |-> SubSeq(t.data, Len(t.data) - t.shape[2] + 1, Len(t.data))]

\* t[0]: the first row of a rank-2 index tensor
first_row(t) ==
    [shape |-> <<t.shape[2]>>, data |-> SubSeq(t.data, 1, t.shape[2])]

\* t[:, [i]]: column i of a rank-2 index tensor, kept as a column
column(t, i) ==
    [shape |-> <<t.shape[1], 1>>,
     data  |-> [b \in 1..t.shape[1] |-> t.data[(b - 1) * t.shape[2] + i + 1]]]

\* t[:, i]: index i on axis 1, the axis dropped
select1(t, i) ==
    IF Len(t.shape) < 2 \/ i >= t.shape[2] THEN Raise("IndexError")
    ELSE LET shape == <<t.shape[1]>> \o SubSeq(t.shape, 3, Len(t.shape))
         IN  Ok([shape |-> shape,
                 data  |-> [k \in 1..numel(shape) |->
                              LET m == Unravel(k - 1, shape)
                              IN  At(t, <<m[1], i>> \o Tail(m))]])

\* the broadcast of two shapes, right-aligned; <<-1>> when they do not broadcast
Broadcast2(a, b) ==
    LET n  == Max2(Len(a), Len(b))
        pa == [i \in 1..n |-> IF i <= n - Len(a) THEN 1 ELSE a[i - (n - Len(a))]]
        pb == [i \in 1..n |-> IF i <= n - Len(b) THEN 1 ELSE b[i - (n - Len(b))]]
    IN  IF \A i \in 1..n : pa[i] = pb[i] \/ pa[i] = 1 \/ pb[i] = 1
        THEN [i \in 1..n |-> IF pa[i] = 1 THEN pb[i] ELSE pa[i]]
        ELSE <<-1>>

RECURSIVE BroadcastAll(_)
BroadcastAll(shapes) ==
    IF Len(shapes) = 1 THEN shapes[1]
    ELSE LET rest == BroadcastAll(Tail(shapes))
         IN  IF rest = <<-1>> THEN rest ELSE Broadcast2(shapes[1], rest)

\* whether a value of shape v expands to shape r (at::is_expandable_to)
Expandable(v, r) ==
    /\ Len(v) <= Len(r)
    /\ \A i \in 1..Len(v) :
          v[i] = r[i + Len(r) - Len(v)] \/ v[i] = 1

RECURSIVE StripLeadingOnes(_)
StripLeadingOnes(s) ==
    IF s # <<>> /\ Head(s) = 1 THEN StripLeadingOnes(Tail(s)) ELSE s

\* the element of x that position m of a broader shape reads, x right-aligned
BAt(x, shape, m) ==
    LET off == Len(m) - Len(shape)
    IN  x.data[Ravel([i \in 1..Len(shape) |->
                        IF shape[i] = 1 THEN 0 ELSE m[i + off]], shape) + 1]

RECURSIVE SeqsOf(_)
SeqsOf(choices) ==
    IF choices = <<>> THEN {<<>>}
    ELSE {<<x>> \o r : x \in choices[1], r \in SeqsOf(Tail(choices))}

\* the contents a tensor may hold after the writes w (<<cell, value>> pairs):
\* a cell written more than once holds any one of the values written to it
Resolve(data, w) ==
    LET cand(c) == {w[j][2] : j \in {j \in 1..Len(w) : w[j][1] = c}}
    IN  SeqsOf([c \in 1..Len(data) |->
                  IF cand(c) = {} THEN {data[c]} ELSE cand(c)])

\* a gather that reads every batch element at the locations of the first
torch_gather_first_row(t, rows) ==
    LET index == torch_tensor(rows)
    IN  IF Len(t.shape) < 2 \/ index.shape[1] > t.shape[1]
        THEN Raise("RuntimeError")
        ELSE IF \E n \in 1..Len(index.data) :
                    index.data[n] < 0 \/ index.data[n] >= t.shape[2]
        THEN Raise("RuntimeError")
        ELSE LET shape == index.shape \o SubSeq(t.shape, 3, Len(t.shape))
             IN  Ok([shape |-> shape,
                     data  |-> [k \in 1..numel(shape) |->
                                  LET m == Unravel(k - 1, shape)
                                  IN  At(t, <<m[1], rows[1][m[2] + 1]>>
                                              \o SubSeq(m, 3, Len(m)))]])

\* torch.gather(t, 1, index) with index the locations broadcast over the
\* trailing axes: out[b, k, ...] = t[b, rows[b][k], ...]
torch_gather(t, rows) ==
    LET index == torch_tensor(rows)
    IN  IF Len(t.shape) < 2 \/ index.shape[1] > t.shape[1]
        THEN Raise("RuntimeError")
        ELSE IF \E n \in 1..Len(index.data) :
                    index.data[n] < 0 \/ index.data[n] >= t.shape[2]
        THEN Raise("RuntimeError")
        ELSE LET shape == index.shape \o SubSeq(t.shape, 3, Len(t.shape))
             IN  Ok([shape |-> shape,
                     data  |-> [k \in 1..numel(shape) |->
                                  LET m == Unravel(k - 1, shape)
                                  IN  At(t, <<m[1], rows[m[1] + 1][m[2] + 1]>>
                                              \o SubSeq(m, 3, Len(m)))]])

\* t[idxs[1], ..., idxs[n], start:end] = v (window = <<start, end>>), or
\* t[idxs[1], ..., idxs[n]] = v (window = <<>>): the set of outcomes, each
\* [raised, value] with value the contents of t after the statement.
\* The shapes are checked before any element is written.  Where the indices
\* are bounds-checked is the backend's choice: a statement that raises
\* IndexError has written nothing (the bounds validated up front) or the
\* elements before the first out-of-range one (each index checked when its
\* element is reached, in row-major order of the indexing result).
index_put(t, idxs, window, v) ==
    LET n      == Len(idxs)
        nw     == IF window = <<>> THEN 0 ELSE 1
        bshape == BroadcastAll([j \in 1..n |-> idxs[j].shape])
    IN  IF n + nw > Len(t.shape) \/ bshape = <<-1>>
        THEN {[raised |-> "IndexError", value |-> t]}
        ELSE
        LET wlen   == IF nw = 0 THEN <<>>
                      ELSE LET size == t.shape[n + 1]
                               lo == IF window[1] > size THEN size ELSE window[1]
                               hi == IF window[2] > size THEN size ELSE window[2]
                           IN  <<Max2(hi - lo, 0)>>
            rshape == bshape \o wlen \o SubSeq(t.shape, n + nw + 1, Len(t.shape))
            vshape == StripLeadingOnes(v.shape)
        IN  IF ~Expandable(vshape, rshape)
            THEN {[raised |-> "RuntimeError", value |-> t]}
            ELSE
            LET nb       == Len(bshape)
                raw(k, j) == BAt(idxs[j], idxs[j].shape,
                                 SubSeq(Unravel(k - 1, rshape), 1, nb))
                wrap(k, j) == IF raw(k, j) < 0 THEN raw(k, j) + t.shape[j]
                              ELSE raw(k, j)
                bad(k)   == \E j \in 1..n :
                               wrap(k, j) < 0 \/ wrap(k, j) >= t.shape[j]
                cell(k)  == LET m == Unravel(k - 1, rshape)
                            IN  Ravel([j \in 1..n |-> wrap(k, j)]
                                      \o (IF nw = 0 THEN <<>>
                                          ELSE <<window[1] + m[nb + 1]>>)
                                      \o SubSeq(m, nb + nw + 1, Len(m)),
                                      t.shape) + 1
                total    == numel(rshape)
                bads     == {k \in 1..total : bad(k)}
                writes(c) == [k \in 1..c |->
                                <<cell(k), BAt(v, vshape, Unravel(k - 1, rshape))>>]
            IN  IF bads = {}
                THEN {[raised |-> "none",
                       value  |-> [shape |-> t.shape, data |-> d]] :
                         d \in Resolve(t.data, writes(total))}
                ELSE LET first == CHOOSE k \in bads : \A o \in bads : k <= o
                     IN  UNION {{[raised |-> "IndexError",
                                  value  |-> [shape |-> t.shape, data |-> d]] :
                                    d \in Resolve(t.data, writes(c))} :
                                c \in {0, first - 1}}

---------------------------------------------------------------------------
(* Python values, strings and attribute paths.  A string is the sequence   *)
(* of its characters.                                                       *)

\* a Python value: None, an int, or an object with attributes (a config, a
\* module) and, for a module list, items
Py(kind, v, id, attrs, items) ==
    [kind |-> kind, v |-> v, id |-> id, attrs |-> attrs, items |-> items]

PyNone == Py("None", 0, <<>>, <<>>, <<>>)

PyInt(n) == Py("int", n, <<>>, <<>>, <<>>)

PyStr(s) == Py("str", 0, <<>>, <<>>, s)

Digits == <<"0", "1", "2", "3", "4", "5", "6", "7", "8", "9">>

IsDigit(c) == \E i \in 1..Len(Digits) : Digits[i] = c

DigitValue(c) == (CHOOSE i \in 1..Len(Digits) : Digits[i] = c) - 1

\* str.isnumeric()
isnumeric(s) == s # <<>> /\ \A i \in 1..Len(s) : IsDigit(s[i])

RECURSIVE Decimal(_)
Decimal(s) ==
    IF s = <<>> THEN 0
    ELSE Decimal(SubSeq(s, 1, Len(s) - 1)) * 10 + DigitValue(s[Len(s)])

\* int(s) of a string
int_of_str(s) ==
    IF isnumeric(s) THEN Ok(PyInt(Decimal(s)))
    ELSE IF Len(s) > 1 /\ s[1] = "-" /\ isnumeric(Tail(s))
    THEN Ok(PyInt(0 - Decimal(Tail(s))))
    ELSE IF Len(s) > 1 /\ s[1] = "+" /\ isnumeric(Tail(s))
    THEN Ok(PyInt(Decimal(Tail(s))))
    ELSE Raise("ValueError")

\* int(x) of a value
int_of(x) ==
    IF x.kind = "int" THEN Ok(x)
    ELSE IF x.kind = "str" THEN int_of_str(x.items)
    ELSE Raise("TypeError")

RECURSIVE str_of_nat(_)
str_of_nat(n) ==
    IF n < 10 THEN <<Digits[n + 1]>>
    ELSE str_of_nat(n \div 10) \o <<Digits[(n % 10) + 1]>>

\* str(x) of an int or a string, as "%s" formats it
str_of(x) ==
    IF x.kind = "str" THEN x.items
    ELSE IF x.kind = "None" THEN <<"N", "o", "n", "e">>
    ELSE IF x.v < 0 THEN <<"-">> \o str_of_nat(0 - x.v)
    ELSE str_of_nat(x.v)

\* c in s
Contains(s, c) == \E i \in 1..Len(s) : s[i] = c

\* s.split(c)
RECURSIVE split(_, _)
split(s, c) ==
    IF ~Contains(s, c) THEN <<s>>
    ELSE LET i == CHOOSE i \in 1..Len(s) :
                      s[i] = c /\ \A j \in 1..(i - 1) : s[j] # c
         IN  <<SubSeq(s, 1, i - 1)>> \o split(SubSeq(s, i + 1, Len(s)), c)

\* c.join(parts)
RECURSIVE join(_, _)
join(parts, c) ==
    IF parts = <<>> THEN <<>>
    ELSE IF Len(parts) = 1 THEN parts[1]
    ELSE parts[1] \o <<c>> \o join(Tail(parts), c)

\* s.strip(c)
RECURSIVE strip(_, _)
strip(s, c) ==
    IF s # <<>> /\ Head(s) = c THEN strip(Tail(s), c)
    ELSE IF s # <<>> /\ s[Len(s)] = c THEN strip(SubSeq(s, 1, Len(s) - 1), c)
    ELSE s

\* getattr(obj, name)
py_getattr(obj, name) ==
    IF name \in DOMAIN obj.attrs THEN Ok(obj.attrs[name])
    ELSE Raise("AttributeError")

\* obj[i]
py_getitem(obj, i) ==
    IF obj.kind # "list" THEN Raise("TypeError")
    ELSE IF i >= Len(obj.items) \/ i < 0 - Len(obj.items) THEN Raise("IndexError")
    ELSE Ok(obj.items[IF i < 0 THEN i + Len(obj.items) + 1 ELSE i + 1])

\* the loop of getattr_for_torch_module over the segments of the name
RECURSIVE walk(_, _)
walk(current_module, params) ==
    IF params = <<>> THEN Ok(current_module)
    ELSE LET param == Head(params)
         IN  IF Contains(param, "[")
             THEN LET pieces == split(param, "[")
                      owner  == py_getattr(current_module, pieces[1])
                      index  == int_of_str(strip(pieces[Len(pieces)], "]"))
                  IN  IF owner.raised # "none" THEN owner
                      ELSE IF index.raised # "none" THEN index
                      ELSE LET item == py_getitem(owner.value, index.value.v)
                           IN  IF item.raised # "none" THEN item
                               ELSE walk(item.value, Tail(params))
             ELSE LET next == py_getattr(current_module, param)
                  IN  IF next.raised # "none" THEN next
                      ELSE walk(next.value, Tail(params))

getattr_for_torch_module(model, parameter_name) ==
    walk(model, split(parameter_name, "."))

---------------------------------------------------------------------------
(* get_dimension_by_component *)

\* model types: one in both tables, one in the dimension table only, and
\* one in neither
GPT2Model == "GPT2Model"

GRUModel == "GRUModel"

LlamaModel == "LlamaModel"

S_n_embd == <<"n", "_", "e", "m", "b", "d">>
S_n_inner == <<"n", "_", "i", "n", "n", "e", "r">>
S_n_head == <<"n", "_", "h", "e", "a", "d">>

S_block_output == <<"b", "l", "o", "c", "k", "_", "o", "u", "t", "p", "u", "t">>
S_mlp_input == <<"m", "l", "p", "_", "i", "n", "p", "u", "t">>
S_mlp_activation == <<"m", "l", "p", "_", "a", "c", "t", "i", "v", "a", "t", "i", "o", "n">>
S_head_value_output == <<"h", "e", "a", "d", "_", "v", "a", "l", "u", "e", "_", "o", "u", "t", "p", "u", "t">>
S_expert_output == <<"e", "x", "p", "e", "r", "t", "_", "o", "u", "t", "p", "u", "t">>
S_query_output == <<"q", "u", "e", "r", "y", "_", "o", "u", "t", "p", "u", "t">>
S_key_output == <<"k", "e", "y", "_", "o", "u", "t", "p", "u", "t">>
S_head_query_output == <<"h", "e", "a", "d", "_", "q", "u", "e", "r", "y", "_", "o", "u", "t", "p", "u", "t">>
S_head_key_output == <<"h", "e", "a", "d", "_", "k", "e", "y", "_", "o", "u", "t", "p", "u", "t">>
S_second_half == <<"s", "e", "c", "o", "n", "d", "_", "h", "a", "l", "f">>
S_multiplied == <<"m", "u", "l", "t", "i", "p", "l", "i", "e", "d">>
S_halved == <<"h", "a", "l", "v", "e", "d">>
S_literal == <<"l", "i", "t", "e", "r", "a", "l">>
S_optional == <<"o", "p", "t", "i", "o", "n", "a", "l">>
S_per_head == <<"p", "e", "r", "_", "h", "e", "a", "d">>
S_unregistered == <<"u", "n", "r", "e", "g", "i", "s", "t", "e", "r", "e", "d">>

\* the proposals ["10*2", "20"]
MultipliedProposals == <<<<"1", "0", "*", "2">>, <<"2", "0">>>>

\* the dimension table: model type -> component -> proposals
type_to_dimension_mapping ==
    (GRUModel :> (S_block_output :> <<S_n_embd>>))
    @@
    GPT2Model :>
       (   (S_n_head :> <<S_n_head>>)
        @@ (S_block_output :> <<S_n_embd>>)
        @@ (S_mlp_activation :> <<S_n_inner, <<"n", "_", "e", "m", "b", "d", "*", "4">>>>)
        @@ (S_head_value_output :> <<<<"n", "_", "e", "m", "b", "d", "/", "n", "_", "h", "e", "a", "d">>>>)
        @@ (S_multiplied :> MultipliedProposals)
        @@ (S_halved :> <<<<"5", "/", "2">>>>)
        @@ (S_literal :> <<<<"2", "0">>>>)
        @@ (S_optional :> <<S_n_inner, S_n_head, <<"2", "0">>>>)
        @@ (S_per_head :> <<S_n_inner, <<"8", "/", "n", "_", "h", "e", "a", "d">>>>)
        @@ (S_expert_output :> <<S_n_inner, S_n_head>>))

\* x * k
py_mul(x, k) ==
    IF x.kind = "int" THEN Ok(PyInt(x.v * k.v)) ELSE Raise("TypeError")

Abs(n) == IF n < 0 THEN 0 - n ELSE n

\* int(numr / denr): the quotient truncated toward zero
py_int_truediv(numr, denr) ==
    IF numr.kind # "int" \/ denr.kind # "int" THEN Raise("TypeError")
    ELSE IF denr.v = 0 THEN Raise("ZeroDivisionError")
    ELSE LET q == Abs(numr.v) \div Abs(denr.v)
         IN  Ok(PyInt(IF (numr.v < 0) = (denr.v < 0) THEN q ELSE 0 - q))

\* the body of the loop: the dimension one proposal gives
dimension_of(model_config, proposal) ==
    IF isnumeric(proposal) THEN int_of_str(proposal)
    ELSE IF Contains(proposal, "*")
    THEN LET a == getattr_for_torch_module(model_config, split(proposal, "*")[1])
             k == int_of_str(split(proposal, "*")[2])
         IN  IF a.raised # "none" THEN a
             ELSE IF k.raised # "none" THEN k
             ELSE py_mul(a.value, k.value)
    ELSE IF Contains(proposal, "/")
    THEN LET n0   == split(proposal, "/")[1]
             d0   == split(proposal, "/")[2]
             numr == IF isnumeric(n0) THEN int_of_str(n0)
                     ELSE getattr_for_torch_module(model_config, n0)
             denr == IF isnumeric(d0) THEN int_of_str(d0)
                     ELSE getattr_for_torch_module(model_config, d0)
         IN  IF numr.raised # "none" THEN numr
             ELSE IF denr.raised # "none" THEN denr
             ELSE py_int_truediv(numr.value, denr.value)
    ELSE getattr_for_torch_module(model_config, proposal)

\* a loop that goes on to the next proposal when one raises
RECURSIVE try_proposals_skip_errors(_, _)
try_proposals_skip_errors(model_config, dimension_proposals) ==
    IF dimension_proposals = <<>> THEN Raise("AssertionError")
    ELSE LET d == dimension_of(model_config, Head(dimension_proposals))
         IN  IF d.raised = "none" /\ d.value.kind # "None" THEN d
             ELSE try_proposals_skip_errors(model_config, Tail(dimension_proposals))

\* the loop over the proposals, and the assert False after it
RECURSIVE try_proposals(_, _)
try_proposals(model_config, dimension_proposals) ==
    IF dimension_proposals = <<>> THEN Raise("AssertionError")
    ELSE LET d == dimension_of(model_config, Head(dimension_proposals))
         IN  IF d.raised # "none" THEN d
             ELSE IF d.value.kind # "None" THEN d
             ELSE try_proposals(model_config, Tail(dimension_proposals))

get_dimension_by_component(model_type, model_config, comp) ==
    IF model_type \notin DOMAIN type_to_dimension_mapping THEN Raise("KeyError")
    ELSE IF comp \notin DOMAIN type_to_dimension_mapping[model_type]
    THEN Ok(PyNone)
    ELSE try_proposals(model_config, type_to_dimension_mapping[model_type][comp])

---------------------------------------------------------------------------
(* Components and their sub-slices *)

CONST_INPUT_HOOK == "register_forward_pre_hook"
CONST_OUTPUT_HOOK == "register_forward_hook"

\* the layout table: model type -> component -> <<attachment path template,
\* hook kind>> followed by the (split function, parameter) pairs
type_to_module_mapping ==
    GPT2Model :>
       (   (S_block_output :> <<<<"h", "[", "%", "s", "]">>, CONST_OUTPUT_HOOK>>)
        @@ (S_mlp_input :> <<<<"h", "[", "%", "s", "]", ".", "m", "l", "p">>, CONST_INPUT_HOOK>>)
        @@ (S_expert_output :> <<<<"h", "[", "%", "s", "]", ".", "e", "[", "%", "s", "]">>, CONST_OUTPUT_HOOK>>)
        @@ (S_query_output :>
               <<<<"h", "[", "%", "s", "]", ".", "a", "t", "t", "n">>, CONST_OUTPUT_HOOK, <<"split_three", PyInt(0)>>>>)
        @@ (S_key_output :>
               <<<<"h", "[", "%", "s", "]", ".", "a", "t", "t", "n">>, CONST_OUTPUT_HOOK, <<"split_three", PyInt(1)>>>>)
        @@ (S_head_query_output :>
               <<<<"h", "[", "%", "s", "]", ".", "a", "t", "t", "n">>, CONST_OUTPUT_HOOK, <<"split_three", PyInt(0)>>, <<"split_head_and_permute", PyStr(S_n_head)>>>>)
        @@ (S_head_key_output :>
               <<<<"h", "[", "%", "s", "]", ".", "a", "t", "t", "n">>, CONST_OUTPUT_HOOK, <<"split_three", PyInt(1)>>, <<"split_head_and_permute", PyStr(S_n_head)>>>>)
        @@ (S_second_half :>
               <<<<"h", "[", "%", "s", "]", ".", "m", "l", "p">>, CONST_OUTPUT_HOOK, <<"split_half", PyInt(1)>>>>))

\* t[..., lo:hi]
slice_last(t, lo, hi) ==
    LET r     == Len(t.shape)
        shape == [t.shape EXCEPT ![r] = hi - lo]
    IN  [shape |-> shape,
         data  |-> [k \in 1..numel(shape) |->
                      LET m == Unravel(k - 1, shape)
                      IN  At(t, [m EXCEPT ![r] = m[r] + lo])]]

\* split_fn(subcomponent, param) for the split functions that cut the last
\* axis in three ("split_three") or two ("split_half") and return chunk
\* param: torch.split(t, size // n, dim=-1)[param]
\* split_head_and_permute(tensor, n_head): the last axis viewed as (n_head,
\* size // n_head) and the head axis moved in front of the sequence axis
split_head_and_permute(t, n_head) ==
    IF n_head.kind # "int" THEN Raise("TypeError")
    ELSE IF n_head.v = 0 THEN Raise("ZeroDivisionError")
    ELSE IF n_head.v < 0 THEN Raise("RuntimeError")
    ELSE LET size   == t.shape[Len(t.shape)]
             viewed == reshape(t, SubSeq(t.shape, 1, Len(t.shape) - 1)
                                  \o <<n_head.v, size \div n_head.v>>)
         IN  IF viewed.raised # "none" THEN viewed
             ELSE permute(viewed.value, <<0, 2, 1, 3>>)

split_fn(fn, t, param) ==
    LET n    == IF fn = "split_three" THEN 3 ELSE 2
        size == t.shape[Len(t.shape)]
        step == size \div n
    IN  IF fn = "split_head_and_permute" THEN split_head_and_permute(t, param)
        ELSE IF param.kind # "int" THEN Raise("TypeError")
        ELSE IF step = 0 THEN Raise("RuntimeError")
        ELSE IF param.v < 0 \/ param.v * step >= size THEN Raise("IndexError")
        ELSE Ok(slice_last(t, param.v * step,
                           IF (param.v + 1) * step > size THEN size
                           ELSE (param.v + 1) * step))

\* a parameter that is a string names a dimension
split_param(param, model_type, model_config) ==
    IF param.kind = "str"
    THEN get_dimension_by_component(model_type, model_config, param.items)
    ELSE Ok(param)

\* subcomponent = split_fn(subcomponent, param), param the outcome of
\* resolving the parameter
split_with(fn, subcomponent, param) ==
    IF param.raised # "none" THEN param
    ELSE split_fn(fn, subcomponent, param.value)

\* the loop of output_to_subcomponent over the (split function, parameter)
\* pairs: apply_splits is the loop from one pair on, next_split the rest of
\* the loop after the outcome r of that pair
RECURSIVE apply_splits(_, _, _, _)
RECURSIVE next_split(_, _, _, _)
next_split(r, split_last_dim_by, model_type, model_config) ==
    IF r.raised # "none" THEN r
    ELSE apply_splits(r.value, split_last_dim_by, model_type, model_config)

apply_splits(subcomponent, split_last_dim_by, model_type, model_config) ==
    IF split_last_dim_by = <<>> THEN Ok(subcomponent)
    ELSE next_split(split_with(split_last_dim_by[1][1], subcomponent,
                               split_param(split_last_dim_by[1][2],
                                           model_type, model_config)),
                    Tail(split_last_dim_by), model_type, model_config)

output_to_subcomponent(output, comp, model_type, model_config) ==
    IF /\ model_type \in DOMAIN type_to_module_mapping
       /\ comp \in DOMAIN type_to_module_mapping[model_type]
    THEN LET entry == type_to_module_mapping[model_type][comp]
             split_last_dim_by == SubSeq(entry, 3, Len(entry))
         IN  IF Len(split_last_dim_by) > 2 THEN Raise("ValueError")
             ELSE apply_splits(output, split_last_dim_by, model_type, model_config)
    ELSE Ok(output)

---------------------------------------------------------------------------
(* gather_neurons and scatter_neurons *)

\* "." in unit
HasDot(u) == u \in {"h.pos", "dim.pos"}

gather_neurons(t_in, u, locations) ==
    IF u = "t" THEN Ok(t_in)
    ELSE IF HasDot(u)
    THEN LET head_tensor_output == torch_gather(t_in, locations[1])
         IN  IF head_tensor_output.raised # "none" THEN head_tensor_output
             ELSE
             LET d == head_tensor_output.value.shape[2]
                 pos_tensor_input == bhsd_to_bs_hd(head_tensor_output.value)
             IN  IF pos_tensor_input.raised # "none" THEN pos_tensor_input
                 ELSE
                 LET pos_tensor_output ==
                         torch_gather(pos_tensor_input.value, locations[2])
                 IN  IF pos_tensor_output.raised # "none" THEN pos_tensor_output
                     ELSE bs_hd_to_bhsd(pos_tensor_output.value, d)
    ELSE torch_gather(t_in, locations)

SeqMin(q) == CHOOSE x \in {q[i] : i \in 1..Len(q)} :
                 \A i \in 1..Len(q) : x <= q[i]

SeqMax(q) == CHOOSE x \in {q[i] : i \in 1..Len(q)} :
                 \A i \in 1..Len(q) : x >= q[i]

\* a loop that validates the locations of all columns before the first write
RECURSIVE write_columns_checked(_, _, _, _, _, _)
write_columns_checked(t, loc0, loc1, mid, replacing, i) ==
    IF i >= loc0.shape[2] THEN {[raised |-> "none", value |-> t]}
    ELSE IF \E n \in 1..Len(loc0.data) : loc0.data[n] >= t.shape[2]
    THEN {[raised |-> "IndexError", value |-> t]}
    ELSE LET v == select1(replacing, i)
         IN  IF v.raised # "none" THEN {[raised |-> v.raised, value |-> t]}
             ELSE UNION {IF o.raised # "none" THEN {o}
                         ELSE write_columns_checked(o.value, loc0, loc1, mid,
                                                    replacing, i + 1) :
                           o \in index_put(t, <<batch_idx(t.shape[1]), column(loc0, i)>>
                                              \o mid \o <<loc1>>, <<>>, v.value)}

\* the per-column loop of the composite units: column i of the first location
\* tensor with all of the second, written from replacing[:, i]
RECURSIVE write_columns(_, _, _, _, _, _)
write_columns(t, loc0, loc1, mid, replacing, i) ==
    IF i >= loc0.shape[2] THEN {[raised |-> "none", value |-> t]}
    ELSE LET v == select1(replacing, i)
         IN  IF v.raised # "none" THEN {[raised |-> v.raised, value |-> t]}
             ELSE UNION {IF o.raised # "none" THEN {o}
                         ELSE write_columns(o.value, loc0, loc1, mid, replacing, i + 1) :
                           o \in index_put(t, <<batch_idx(t.shape[1]), column(loc0, i)>>
                                              \o mid \o <<loc1>>, <<>>, v.value)}

\* an outcome of scatter_neurons: the exception, the tensor returned and the
\* contents of t_in after the call
Outcome(r, ret, after) == [raised |-> r, returned |-> ret, input |-> after]

InPlace(puts) ==
    {Outcome(o.raised, IF o.raised = "none" THEN o.value ELSE NoTensor, o.value) :
        o \in puts}

\* the index through the first row whatever use_fast says
scatter_pos_always_fast(t_in, locs, window, replacing, fast) ==
    index_put(t_in, <<batch_idx(t_in.shape[1]), first_row(locs)>>,
              window, replacing)

\* the "pos" branch
scatter_pos(t_in, locs, window, replacing, fast) ==
    IF fast
    THEN index_put(t_in,
                   <<batch_idx(t_in.shape[1]), first_row(locs)>>,
                   window, replacing)
    ELSE index_put(t_in, <<batch_idx(t_in.shape[1]), locs>>,
                   window, replacing)

\* the body of scatter_neurons below the call of output_to_subcomponent, whose
\* result is meta: the branches on the unit
scatter_by_unit(t_in, replacing, comp, u, unit_locations, model_type, fast, meta) ==
    IF meta.raised # "none"
        THEN {Outcome(meta.raised, NoTensor, t_in)}
        ELSE
        LET meta_component == meta.value
            width == t_in.shape[Len(t_in.shape)]
            start_index == SeqMin(meta_component.data)
            end_index   == SeqMax(meta_component.data) + 1
            last_dim    == meta_component.shape[Len(meta_component.shape)]
            window      == <<start_index, end_index>>
            _batch_idx  == batch_idx(t_in.shape[1])
        IN  IF u = "t"
            THEN InPlace(index_put(t_in, <<_batch_idx>>, window, replacing))
            ELSE IF u = "pos"
            THEN InPlace(scatter_pos(t_in, unit_locations, window,
                                     replacing, fast))
            ELSE IF u \in {"h", "h.pos"}
            THEN LET old_shape == t_in.shape
                     heads     == meta_component.shape[2]
                     parts     == width \div (heads * last_dim)
                     new_shape == SubSeq(old_shape, 1, Len(old_shape) - 1)
                                  \o <<parts, heads, last_dim>>
                     _slice_idx ==
                         IF /\ comp \in DOMAIN type_to_module_mapping[model_type]
                            /\ Len(type_to_module_mapping[model_type][comp]) > 2
                            /\ type_to_module_mapping[model_type][comp][3][1]
                               = "split_three"
                         THEN type_to_module_mapping[model_type][comp][3][2].v
                         ELSE 0
                     viewed    == reshape(t_in, new_shape)
                     permuted  == permute(viewed.value, <<0, 3, 2, 1, 4>>)
                 IN  IF viewed.raised # "none"
                     THEN {Outcome(viewed.raised, NoTensor, t_in)}
                     ELSE IF permuted.raised # "none"
                     THEN {Outcome(permuted.raised, NoTensor, t_in)}
                     ELSE
                     LET puts ==
                             IF HasDot(u)
                             THEN write_columns(permuted.value, unit_locations[1],
                                                unit_locations[2],
                                                <<scalar_idx(_slice_idx)>>,
                                                replacing, 0)
                             ELSE index_put(permuted.value,
                                            <<_batch_idx, unit_locations,
                                              scalar_idx(_slice_idx)>>,
                                            <<>>, replacing)
                         back(x) == reshape(permute(x, <<0, 3, 2, 1, 4>>).value,
                                            old_shape).value
                     IN  {Outcome(o.raised,
                                  IF o.raised = "none" THEN back(o.value)
                                  ELSE NoTensor,
                                  back(o.value)) : o \in puts}
            ELSE IF HasDot(u)
            THEN InPlace(write_columns(t_in, unit_locations[1],
                                       unit_locations[2], <<>>, replacing, 0))
            ELSE InPlace(index_put(t_in, <<_batch_idx, unit_locations>>,
                                   <<>>, replacing))

\* an index tensor that counts from 1
arange3_from_one(n) == [shape |-> <<1, 1, n>>, data |-> [k \in 1..n |-> k]]

\* torch.arange(n).unsqueeze(dim=0).unsqueeze(dim=0)
arange3(n) == [shape |-> <<1, 1, n>>, data |-> [k \in 1..n |-> k - 1]]

scatter_neurons(t_in, replacing, comp, u, locations, model_type, model_config, fast) ==
    scatter_by_unit(t_in, replacing, comp, u,
                    IF HasDot(u)
                    THEN <<torch_tensor(locations[1]), torch_tensor(locations[2])>>
                    ELSE torch_tensor(locations),
                    model_type, fast,
                    output_to_subcomponent(arange3(t_in.shape[Len(t_in.shape)]),
                                           comp, model_type, model_config))

---------------------------------------------------------------------------
(* get_module_hook *)

\* a module with named children, and a module list with its items (also its
\* children, named by their index)
Module(id, attrs) == Py("module", 0, id, attrs, <<>>)

ModuleList(id, items) ==
    Py("list", 0, id,
       [n \in {str_of_nat(i - 1) : i \in 1..Len(items)} |-> items[Decimal(n) + 1]],
       items)

\* hook_type when neither branch of the fallback has bound it
Unbound == "<unbound>"

NoHook == [form |-> "none", module |-> <<>>, hook_type |-> ""]

\* "%s" in parameter_name
HasPlaceholder(s) == \E i \in 1..(Len(s) - 1) : s[i] = "%" /\ s[i + 1] = "s"

\* parameter_name % args, for a template whose only conversions are %s
RECURSIVE format(_, _)
format(s, args) ==
    IF ~HasPlaceholder(s)
    THEN IF args = <<>> THEN Ok(s) ELSE Raise("TypeError")
    ELSE IF args = <<>> THEN Raise("TypeError")
    ELSE LET i    == CHOOSE i \in 1..(Len(s) - 1) :
                        /\ s[i] = "%" /\ s[i + 1] = "s"
                        /\ \A j \in 1..(i - 1) : ~(s[j] = "%" /\ s[j + 1] = "s")
             rest == format(SubSeq(s, i + 2, Len(s)), Tail(args))
         IN  IF rest.raised # "none" THEN rest
             ELSE Ok(SubSeq(s, 1, i - 1) \o str_of(Head(args)) \o rest.value)

\* get_internal_model_type: the registered type the model is an instance of
get_internal_model_type(model) ==
    IF model.type \in DOMAIN type_to_dimension_mapping THEN Ok(model.type)
    ELSE Raise("ValueError")

\* a fallback that takes every final segment but "input" for "output"
literal_hook_type_default_output(last) ==
    IF last = <<"i", "n", "p", "u", "t">> THEN CONST_INPUT_HOOK ELSE CONST_OUTPUT_HOOK

\* the hook kind the final segment of a literal path names
literal_hook_type(last) ==
    IF last = <<"i", "n", "p", "u", "t">> THEN CONST_INPUT_HOOK
    ELSE IF last = <<"o", "u", "t", "p", "u", "t">> THEN CONST_OUTPUT_HOOK
    ELSE Unbound

\* parameter_name and hook_type: from the table, or from the literal path
attachment(model, representation) ==
    LET model_type == get_internal_model_type(model).value
    IN  IF get_internal_model_type(model).raised # "none"
        THEN [name |-> get_internal_model_type(model), hook_type |-> Unbound]
        ELSE
        IF /\ model_type \in DOMAIN type_to_module_mapping
           /\ representation.component \in DOMAIN type_to_module_mapping[model_type]
        THEN LET type_info == type_to_module_mapping[model_type][representation.component]
                 parameter_name == type_info[1]
                 hook_type == type_info[2]
             IN  IF HasPlaceholder(parameter_name)
                    /\ representation.moe_key.kind = "None"
                 THEN [name |-> format(parameter_name, <<representation.layer>>),
                       hook_type |-> hook_type]
                 ELSE IF HasPlaceholder(parameter_name)
                 THEN LET layer == int_of(representation.layer)
                          moe   == int_of(representation.moe_key)
                      IN  [name |-> IF layer.raised # "none" THEN layer
                                    ELSE IF moe.raised # "none" THEN moe
                                    ELSE format(parameter_name,
                                                <<layer.value, moe.value>>),
                           hook_type |-> hook_type]
                 ELSE [name |-> Ok(parameter_name), hook_type |-> hook_type]
        ELSE LET segments == split(representation.component, ".")
             IN  [name |-> Ok(join(SubSeq(segments, 1, Len(segments) - 1), ".")),
                  hook_type |-> literal_hook_type(segments[Len(segments)])]

get_module_hook(model, representation, backend) ==
    LET a == attachment(model, representation)
    IN  IF a.name.raised # "none" THEN [raised |-> a.name.raised, value |-> NoHook]
        ELSE
        LET module == getattr_for_torch_module(model.root, a.name.value)
        IN  IF module.raised # "none"
            THEN [raised |-> module.raised, value |-> NoHook]
            ELSE IF backend = "native"
            THEN IF a.hook_type = Unbound
                 THEN [raised |-> "UnboundLocalError", value |-> NoHook]
                 ELSE IF module.value.kind \notin {"module", "list"}
                 THEN [raised |-> "AttributeError", value |-> NoHook]
                 ELSE [raised |-> "none",
                       value  |-> [form |-> "method", module |-> module.value.id,
                                   hook_type |-> a.hook_type]]
            ELSE IF backend = "ndif"
            THEN IF a.hook_type = Unbound
                 THEN [raised |-> "UnboundLocalError", value |-> NoHook]
                 ELSE [raised |-> "none",
                       value  |-> [form |-> "pair", module |-> module.value.id,
                                   hook_type |-> a.hook_type]]
            ELSE [raised |-> "UnboundLocalError", value |-> NoHook]

---------------------------------------------------------------------------
(* do_intervention *)

\* what the intervention returns for the tensors it is given: a tensor of the
\* shape of base with other contents ("add"), the source in place of base
\* ("interchange"), or the first feature of base only ("collect")
intervene(intervention, base, source) ==
    IF intervention.effect = "add"
    THEN [shape |-> base.shape,
          data  |-> [k \in 1..Len(base.data) |-> base.data[k] + 1]]
    ELSE IF intervention.effect = "interchange"
    THEN IF source = NoTensor THEN base ELSE source
    ELSE slice_last(base, 0, 1)

\* a flatten that checks the rank before the opt-outs
flatten_rank_first(t, original_base_shape, intervention) ==
    IF Len(original_base_shape) = 2 THEN Ok(t)
    ELSE IF Len(original_base_shape) = 3 THEN bsd_to_b_sd(t)
    ELSE IF Len(original_base_shape) = 4 THEN bhsd_to_bs_hd(t)
    ELSE Raise("AssertionError")

\* the flatten step, for base and for source
flatten(t, original_base_shape, intervention) ==
    IF \/ Len(original_base_shape) = 2
       \/ intervention.localist
       \/ intervention.keep_last_dim
    THEN Ok(t)
    ELSE IF Len(original_base_shape) = 3 THEN bsd_to_b_sd(t)
    ELSE IF Len(original_base_shape) = 4 THEN bhsd_to_bs_hd(t)
    ELSE Raise("AssertionError")

\* an unflatten without the opt-outs
unflatten_by_rank(t, original_base_shape, num_unit, intervention) ==
    IF Len(original_base_shape) = 2 THEN Ok(t)
    ELSE IF Len(original_base_shape) = 3 THEN b_sd_to_bsd(t, num_unit)
    ELSE IF Len(original_base_shape) = 4 THEN bs_hd_to_bhsd(t, num_unit)
    ELSE Raise("AssertionError")

\* the unflatten step
unflatten(t, original_base_shape, num_unit, intervention) ==
    IF \/ Len(original_base_shape) = 2
       \/ intervention.localist
       \/ intervention.keep_last_dim
    THEN Ok(t)
    ELSE IF Len(original_base_shape) = 3 THEN b_sd_to_bsd(t, num_unit)
    ELSE IF Len(original_base_shape) = 4 THEN bs_hd_to_bhsd(t, num_unit)
    ELSE Raise("AssertionError")

\* an outcome of do_intervention: the exception, whether the intervention was
\* invoked and with which base, and the tensor returned (inside an
\* InterventionOutput when wrapped)
Dispatched(r, invoked_, given, output, wrapped) ==
    [raised |-> r, invoked |-> invoked_, given |-> given, output |-> output,
     wrapped |-> wrapped]

do_intervention(base, source, intervention) ==
    IF intervention.is_lambda
    THEN Dispatched("none", TRUE, base, intervene(intervention, base, source),
                    intervention.wraps)
    ELSE IF Len(base.shape) < 2
    THEN Dispatched("IndexError", FALSE, NoTensor, NoTensor, FALSE)
    ELSE
    LET num_unit == base.shape[2]
        original_base_shape == base.shape
        base_representation_f_ == flatten(base, original_base_shape, intervention)
        source_representation_f == flatten(source, original_base_shape, intervention)
    IN  IF base_representation_f_.raised # "none"
        THEN Dispatched(base_representation_f_.raised, FALSE, NoTensor, NoTensor, FALSE)
        ELSE IF source_representation_f.raised # "none"
        THEN Dispatched(source_representation_f.raised, FALSE, NoTensor, NoTensor,
                        FALSE)
        ELSE
        LET intervened == intervene(intervention, base_representation_f_.value,
                                    source_representation_f.value)
            restored_  == unflatten(intervened, original_base_shape, num_unit,
                                    intervention)
        IN  IF restored_.raised # "none"
            THEN Dispatched(restored_.raised, TRUE, base_representation_f_.value,
                            NoTensor, FALSE)
            ELSE Dispatched("none", TRUE, base_representation_f_.value,
                            restored_.value, intervention.wraps)

---------------------------------------------------------------------------
(* The gather / scatter calls *)

\* batch sizes and numbers of locations per batch element
Batches == 1..2
Counts == 1..2

GSShapes(rank) ==
    {<<b>> \o mid \o <<d>> :
        b \in Batches, mid \in [1..(rank - 2) -> 1..MaxAxis], d \in 1..MaxDim}

\* every list of b rows of k locations below n
Rows(b, k, n) == [1..b -> [1..k -> 0..(n - 1)]]

\* the row r for every batch element (delta = 0), or shifted by delta from
\* one batch element to the next
Shifted(r, b, delta, n) ==
    [i \in 1..b |-> [j \in 1..Len(r) |-> (r[j] + (i - 1) * delta) % n]]

\* one location replaced by n, which is out of range for an axis of size n
OneOut(rows, n) ==
    {[rows EXCEPT ![i][j] = n] : i \in 1..Len(rows), j \in 1..Len(rows[1])}

\* the shape of a replacement that fits the locations: what gather_neurons
\* returns for the unit, and for the head units the heads written
ReplacementShape(u, shape, l) ==
    IF u = "t" THEN shape
    ELSE IF HasDot(u)
    THEN <<shape[1], Len(l[1][1]), Len(l[2][1])>>
         \o (IF u = "dim.pos" /\ Len(shape) = 3 THEN <<>>
             ELSE <<shape[Len(shape)]>>)
    ELSE <<shape[1], Len(l[1])>>
         \o (IF u = "h" /\ Len(shape) = 3 THEN <<shape[2], shape[3]>>
             ELSE SubSeq(shape, 3, Len(shape)))

Call(u, shape, l) ==
    [unit |-> u, t |-> Filled(shape, 0), locs |-> l,
     r |-> Filled(ReplacementShape(u, shape, l), 100)]

\* the locations of a simple unit on a tensor of this shape: every list of
\* one row per batch element with all locations on axis 1
SimpleLocs(shape) == UNION {Rows(shape[1], k, shape[2]) : k \in Counts}

\* a pair of location lists: heads (or first axis) and positions, both equal
\* for all batch elements or both shifted from one element to the next
CompositeLocs(b, n0, n1) ==
    UNION {{<<Shifted(r0, b, delta, n0), Shifted(r1, b, delta, n1)>> :
               r0 \in [1..k0 -> 0..(n0 - 1)], r1 \in [1..k1 -> 0..(n1 - 1)],
               delta \in 0..1} :
             k0 \in Counts, k1 \in Counts}

\* the second axis a composite unit addresses
PosAxis(u, shape) ==
    IF Len(shape) = 4 \/ u = "dim.pos" THEN shape[3] ELSE shape[2]

OneOutFirst(pairs, n) ==
    UNION {{<<l0, p[2]>> : l0 \in OneOut(p[1], n)} : p \in pairs}

\* the calls of the round trip on these units, with one location list and
\* with a pair of them (and on "t"): valid locations only
RoundTripCalls(simple, composite) ==
    {Call("t", shape, <<>>) : shape \in GSShapes(2) \cup GSShapes(3)}
    \cup
    UNION {{Call(u, shape, l) : l \in SimpleLocs(shape)} :
              u \in simple,
              shape \in GSShapes(2) \cup GSShapes(3) \cup GSShapes(4)}
    \cup
    UNION {{Call(u, shape, l) :
               l \in CompositeLocs(shape[1], shape[2], PosAxis(u, shape))} :
              u \in composite,
              shape \in GSShapes(3) \cup GSShapes(4)}

\* the calls of a scatter of a replacement on these units (and on "t"): valid
\* locations, and lists with one location out of range
ScatterCalls(simple, composite) ==
    {Call("t", shape, <<>>) : shape \in GSShapes(2) \cup GSShapes(3)}
    \cup
    UNION {{Call(u, shape, l) :
               l \in SimpleLocs(shape)
                     \cup UNION {OneOut(x, shape[2]) : x \in SimpleLocs(shape)}} :
              u \in simple,
              shape \in GSShapes(2) \cup GSShapes(3)}
    \cup
    UNION {{Call(u, shape, l) :
               l \in CompositeLocs(shape[1], shape[2], PosAxis(u, shape))
                     \cup OneOutFirst(CompositeLocs(shape[1], shape[2],
                                                    PosAxis(u, shape)), shape[2])} :
              u \in composite,
              shape \in GSShapes(3) \cup GSShapes(4)}

\* the components of the calls: one of the table and one literal path, both
\* without sub-slicing
Components == {S_block_output, <<"h", "[", "0", "]", ".", "o", "u", "t", "p", "u", "t">>}

\* a configuration object of the model type
Config(n_embd, n_inner, n_head) ==
    Py("config", 0, <<>>,
       (S_n_embd :> n_embd) @@ (S_n_inner :> n_inner) @@ (S_n_head :> n_head),
       <<>>)

GSConfig == Config(PyInt(4), PyNone, PyInt(2))

DimIdle ==
    /\ call_model_type = ""
    /\ call_model_config = PyNone
    /\ dimension = PyNone

NoRepresentation == [component |-> <<>>, layer |-> PyNone, moe_key |-> PyNone]

HookIdle ==
    /\ call_model = [type |-> "", root |-> PyNone]
    /\ call_representation = NoRepresentation
    /\ call_backend = ""
    /\ module_hook = NoHook

NoIntervention ==
    [is_lambda |-> FALSE, localist |-> FALSE, keep_last_dim |-> FALSE,
     wraps |-> FALSE, effect |-> ""]

NoOutput == [wrapped |-> FALSE, output |-> NoTensor]

DoIdle ==
    /\ base_representation = NoTensor
    /\ source_representation = NoTensor
    /\ call_intervention = NoIntervention
    /\ invoked = FALSE
    /\ base_representation_f = NoTensor
    /\ intervention_output = NoOutput

GSIdle ==
    /\ tensor_input = NoTensor
    /\ before = NoTensor
    /\ replacing_tensor_input = NoTensor
    /\ component = <<>>
    /\ unit = ""
    /\ unit_locations_as_list = <<>>
    /\ use_fast = FALSE
    /\ tensor_output = NoTensor
    /\ returned = NoTensor

FlatIdle ==
    /\ tensor = NoTensor
    /\ flattened = NoTensor
    /\ restored = NoTensor
    /\ num_arg = 0

GSStart(calls) ==
    /\ pc = "start"
    /\ raised = "none"
    /\ \E c \in calls :
          /\ unit = c.unit
          /\ tensor_input = c.t
          /\ before = c.t
          /\ unit_locations_as_list = c.locs
          /\ replacing_tensor_input = c.r
    /\ component = <<>>
    /\ use_fast = FALSE
    /\ tensor_output = NoTensor
    /\ returned = NoTensor
    /\ FlatIdle
    /\ DimIdle
    /\ HookIdle
    /\ DoIdle

InitGS == GSStart(RoundTripCalls({"pos", "h", "dim"}, {"h.pos", "dim.pos"}))

InitScatter == GSStart(ScatterCalls({"pos", "h", "dim"}, {"h.pos", "dim.pos"}))

\* g = gather_neurons(t, unit, L)
Gather ==
    /\ pc = "start"
    /\ LET g == gather_neurons(tensor_input, unit, unit_locations_as_list)
       IN  /\ tensor_output' = g.value
           /\ raised' = g.raised
    /\ pc' = "gather_neurons"
    /\ UNCHANGED <<tensor_input, before, replacing_tensor_input, component, unit,
                   unit_locations_as_list, use_fast, returned, flat_vars,
                   dim_vars, hook_vars, do_vars>>

ScatterCall(replacing, label) ==
    \E comp \in Components, fast \in (IF unit = "pos" THEN BOOLEAN ELSE {FALSE}) :
       \E o \in scatter_neurons(tensor_input, replacing, comp, unit,
                                unit_locations_as_list, GPT2Model, GSConfig,
                                fast) :
          /\ tensor_input' = o.input
          /\ returned' = o.returned
          /\ raised' = o.raised
          /\ component' = comp
          /\ use_fast' = fast
          /\ pc' = label
          /\ UNCHANGED <<before, replacing_tensor_input, unit,
                         unit_locations_as_list, tensor_output, flat_vars,
                         dim_vars, hook_vars, do_vars>>

\* scatter_neurons(copy of t, g, component, unit, L, ...)
ScatterBack ==
    /\ pc = "gather_neurons"
    /\ raised = "none"
    /\ ScatterCall(tensor_output, "scatter_back")

\* scatter_neurons(t, r, component, unit, L, ...)
Scatter ==
    /\ pc = "start"
    /\ ScatterCall(replacing_tensor_input, "scatter_neurons")

NextGS == Gather \/ ScatterBack

SpecGS == InitGS /\ [][NextGS]_vars

NextScatter == Gather \/ Scatter

SpecScatter == InitScatter /\ [][NextScatter]_vars

---------------------------------------------------------------------------
(* Claims about gather_neurons and scatter_neurons *)

Rank(t) == Len(t.shape)

\* every batch element has the location list of batch element 0
SameRows(l) == \A i \in 1..Len(l) : l[i] = l[1]

RoundTripDone == pc = "scatter_back"

Reproduced == raised = "none" /\ tensor_input = before /\ returned = before

PositionsThenHeads(t, heads, positions) ==
    LET by_pos == torch_gather(permute(t, <<0, 2, 1, 3>>).value, positions).value
    IN  torch_gather(permute(by_pos, <<0, 2, 1, 3>>).value, heads).value

\* C9: for unit "h.pos" on a (batch, head, seq, dim) tensor, gather_neurons
\* returns out[b, i, j, :] = t[b, H[b][i], P[b][j], :] with shape
\* (batch, |H[b]|, |P[b]|, dim), the values that selecting the positions
\* first and the heads second gives.
CompositeGather ==
    (pc = "gather_neurons" /\ unit = "h.pos" /\ Rank(tensor_input) = 4) =>
        LET H == unit_locations_as_list[1]
            P == unit_locations_as_list[2]
            shape == <<tensor_input.shape[1], Len(H[1]), Len(P[1]),
                       tensor_input.shape[4]>>
        IN  /\ raised = "none"
            /\ tensor_output.shape = shape
            /\ \A b \in 1..shape[1], i \in 1..shape[2], j \in 1..shape[3],
                  f \in 1..shape[4] :
                  At(tensor_output, <<b - 1, i - 1, j - 1, f - 1>>)
                  = At(tensor_input, <<b - 1, H[b][i], P[b][j], f - 1>>)
            /\ tensor_output = PositionsThenHeads(tensor_input, H, P)

\* two heads and two positions selected, in an order that is not the tensor's
CompositeGatherWitness ==
    /\ pc = "gather_neurons"
    /\ unit = "h.pos"
    /\ Rank(tensor_input) = 4
    /\ raised = "none"
    /\ tensor_output.shape[2] = 2 /\ tensor_output.shape[3] = 2
    /\ unit_locations_as_list[1][1] = <<1, 0>>
    /\ unit_locations_as_list[2][1] = <<1, 0>>

\* the locations of batch element b (from 1), as a set
LocSet(l, b) == {l[b][j] : j \in 1..Len(l[b])}

AllInRange(l, n) == \A b \in 1..Len(l) : \A p \in LocSet(l, b) : p < n

Scattered == pc = "scatter_neurons"

PosOnRank3 ==
    /\ unit = "pos"
    /\ Rank(before) = 3
    /\ AllInRange(unit_locations_as_list, before.shape[2])

\* out[b, j, :] = t[b, L[b][j], :]
PosGathered ==
    LET l == unit_locations_as_list
    IN  /\ raised = "none"
        /\ tensor_output.shape = <<Len(l), Len(l[1]), before.shape[3]>>
        /\ \A b \in 1..Len(l), j \in 1..Len(l[1]), f \in 1..before.shape[3] :
              At(tensor_output, <<b - 1, j - 1, f - 1>>)
              = At(before, <<b - 1, l[b][j], f - 1>>)

\* rows outside the locations are as before
PosFrame ==
    \A b \in 1..before.shape[1], p \in 0..(before.shape[2] - 1),
       f \in 0..(before.shape[3] - 1) :
        p \notin LocSet(unit_locations_as_list, b) =>
            At(tensor_input, <<b - 1, p, f>>) = At(before, <<b - 1, p, f>>)

\* C2 as stated: for unit "pos" on a (batch, seq, dim) tensor with per-batch
\* locations, gather_neurons returns out[b, j, :] = t[b, L[b][j], :], and
\* scatter_neurons sets t[b, L[b][j], :] = r[b, j, :] for every b, j and
\* leaves every other row unchanged.
PosGatherScatter ==
    PosOnRank3 =>
        /\ pc = "gather_neurons" => PosGathered
        /\ Scattered =>
              LET l == unit_locations_as_list
              IN  /\ raised = "none"
                  /\ \A b \in 1..Len(l), j \in 1..Len(l[1]),
                        f \in 0..(before.shape[3] - 1) :
                        At(tensor_input, <<b - 1, l[b][j], f>>)
                        = At(replacing_tensor_input, <<b - 1, j - 1, f>>)
                  /\ PosFrame

\* C2, amended: gather_neurons returns out[b, j, :] = t[b, L[b][j], :]; with
\* use_fast false, or with the same location list for every batch element,
\* scatter_neurons leaves every row outside L[b] unchanged and every element
\* t[b, p, f] with p in L[b] holding r[b, j, f] for a j with L[b][j] = p
\* (the one j, when the locations of b are distinct).
PosGatherScatterSlow ==
    PosOnRank3 =>
        /\ pc = "gather_neurons" => PosGathered
        /\ (Scattered /\ (~use_fast \/ SameRows(unit_locations_as_list))) =>
              LET l == unit_locations_as_list
              IN  /\ raised = "none"
                  /\ \A b \in 1..Len(l), j \in 1..Len(l[1]),
                        f \in 0..(before.shape[3] - 1) :
                        \E k \in 1..Len(l[1]) :
                           /\ l[b][k] = l[b][j]
                           /\ At(tensor_input, <<b - 1, l[b][j], f>>)
                              = At(replacing_tensor_input, <<b - 1, k - 1, f>>)
                  /\ PosFrame

\* rows that differ between the batch elements written, others kept
PosGatherScatterWitness ==
    /\ PosOnRank3
    /\ Scattered
    /\ ~use_fast
    /\ raised = "none"
    /\ ~SameRows(unit_locations_as_list)
    /\ before.shape[2] > Len(unit_locations_as_list[1])
    /\ tensor_input # before

ThisOutcome == Outcome(raised, returned, tensor_input)

ScatterPos(l, fast) ==
    scatter_neurons(before, replacing_tensor_input, component, "pos", l,
                    GPT2Model, GSConfig, fast)

\* C10 as stated: for unit "pos" the call with use_fast = true leaves the
\* tensor in the state the call with use_fast = false leaves it in, for every
\* tensor, replacement and location list.
FastPathEquivalence ==
    (Scattered /\ unit = "pos") =>
        ThisOutcome \in ScatterPos(unit_locations_as_list, ~use_fast)

\* C10, amended: the call with use_fast = true leaves the tensor in the state
\* the call with use_fast = false leaves it in when given the location list
\* of batch element 0 for every batch element; the two calls agree when all
\* batch elements have the same location list.
FastPathFirstRow ==
    (Scattered /\ unit = "pos") =>
        LET l == unit_locations_as_list
            first == [b \in 1..Len(l) |-> l[1]]
        IN  /\ use_fast => ThisOutcome \in ScatterPos(first, FALSE)
            /\ SameRows(l) => ThisOutcome \in ScatterPos(l, ~use_fast)

\* a fast call that wrote, on rows that differ between the batch elements
FastPathWitness ==
    /\ Scattered
    /\ unit = "pos"
    /\ use_fast
    /\ raised = "none"
    /\ ~SameRows(unit_locations_as_list)
    /\ tensor_input # before

\* the axis sizes the two location lists of a composite unit index
HeadAxis == IF unit = "h.pos" THEN 1 ELSE before.shape[2]

\* the per-column loop is reached: the reshapes before it succeed
LoopReached == HasDot(unit) /\ (unit = "h.pos" => Rank(before) = 3)

\* the first column (from 1) of the first location list with a location out
\* of range, or one past the last column
FirstBadColumn ==
    LET l0 == unit_locations_as_list[1]
        bad == {i \in 1..Len(l0[1]) : \E b \in 1..Len(l0) : l0[b][i] >= HeadAxis}
    IN  IF bad = {} THEN Len(l0[1]) + 1
        ELSE CHOOSE i \in bad : \A o \in bad : i <= o

\* the features of one addressed location
Features ==
    IF unit = "dim.pos" /\ Rank(before) = 3 THEN {<<>>}
    ELSE {<<f>> : f \in 0..(before.shape[Rank(before)] - 1)}

\* the element of tensor_input that column i, position j write for batch b
CompositeCell(b, i, j, f) ==
    LET l0 == unit_locations_as_list[1]
        l1 == unit_locations_as_list[2]
    IN  IF unit = "h.pos" THEN <<b - 1, l1[b][j]>> \o f
        ELSE <<b - 1, l0[b][i], l1[b][j]>> \o f

\* a location out of range for the axis scatter_neurons indexes with it
HasOutOfRange ==
    IF unit = "t" THEN FALSE
    ELSE IF HasDot(unit)
    THEN ~AllInRange(unit_locations_as_list[1], HeadAxis)
    ELSE ~AllInRange(unit_locations_as_list,
                     IF unit = "h" THEN 1 ELSE before.shape[2])

---------------------------------------------------------------------------
(* The scatter calls on a component that declares a sub-slice *)

\* the components of the table that declare a sub-slice: a third of a fused
\* triple, without and with the split into heads, and a half of a fused pair
SlicedComponents ==
    {S_query_output, S_key_output, S_head_query_output, S_head_key_output,
     S_second_half}

\* meta_component for a tensor whose last axis has w features
MetaComponent(comp, w) ==
    output_to_subcomponent(arange3(w), comp, GPT2Model, GSConfig).value

\* the heads the component's sub-slice is split into (1: not split)
SliceHeads(comp) ==
    IF Len(type_to_module_mapping[GPT2Model][comp]) > 3
    THEN GSConfig.attrs[S_n_head].v
    ELSE 1

\* the sizes of the last axis: three members of SliceHeads(comp) heads of up
\* to MaxPerHead features each
SliceWidths(comp) == {3 * SliceHeads(comp) * hd : hd \in 1..MaxPerHead}

\* the tensor shapes with a last axis of w features
SliceShapes(w, rank) ==
    {<<b>> \o mid \o <<w>> :
        b \in Batches, mid \in [1..(rank - 2) -> 1..MaxAxis]}

\* location lists of b rows of consecutive locations (modulo n) on an axis of
\* size n, no location twice in a row: the same row for every batch element
\* (delta = 0), or shifted by delta from one element to the next
SliceRows(b, n, deltas) ==
    UNION {{Shifted([j \in 1..k |-> (p + j - 1) % n], b, delta, n) :
               p \in 0..(n - 1), delta \in deltas} :
             k \in {c \in Counts : c <= n}}

SliceLocs(b, n) == SliceRows(b, n, 0..1)

\* a pair of location lists, each the same for every batch element
SlicePairs(b, n0, n1) ==
    {<<l0, l1>> : l0 \in SliceRows(b, n0, {0}), l1 \in SliceRows(b, n1, {0})}

\* the shape of a replacement that fits what the branch of the unit indexes,
\* meta the meta_component of the call
SliceReplacementShape(u, shape, l, meta) ==
    LET win  == SeqMax(meta.data) + 1 - SeqMin(meta.data)
        hd   == meta.shape[Len(meta.shape)]
        b    == shape[1]
    IN  IF u = "t"
        THEN (IF Len(shape) = 2 THEN <<b, 1, win>>
              ELSE <<b, 1, 1, shape[3]>>)
        ELSE IF u = "pos"
        THEN (IF Len(shape) = 3 THEN <<b, Len(l[1]), win>>
              ELSE <<b, Len(l[1]), 1, shape[4]>>)
        ELSE IF u = "h" THEN <<b, Len(l[1]), shape[2], hd>>
        ELSE IF u = "h.pos" THEN <<b, Len(l[1][1]), Len(l[2][1]), hd>>
        ELSE IF u = "dim.pos" THEN <<b, Len(l[1][1]), Len(l[2][1])>>
        ELSE <<b, Len(l[1])>> \o SubSeq(shape, 3, Len(shape))

SliceCall(u, shape, l, comp, meta) ==
    [unit |-> u, t |-> Filled(shape, 0), locs |-> l, comp |-> comp,
     r |-> Filled(SliceReplacementShape(u, shape, l, meta), 100)]

\* the calls on a component and a last axis of w features, meta the
\* meta_component of these calls: every unit branch, on the tensor ranks the
\* branch accepts
SliceCallsOn(comp, w, meta) ==
    {SliceCall("t", shape, <<>>, comp, meta) :
        shape \in SliceShapes(w, 2) \cup SliceShapes(w, 3)}
    \cup
    UNION {{SliceCall("pos", shape, l, comp, meta) :
               l \in SliceLocs(shape[1], shape[2])} :
             shape \in SliceShapes(w, 3) \cup SliceShapes(w, 4)}
    \cup
    UNION {{SliceCall("h", shape, l, comp, meta) :
               l \in SliceLocs(shape[1], SliceHeads(comp))} :
             shape \in SliceShapes(w, 3)}
    \cup
    UNION {{SliceCall("h.pos", shape, l, comp, meta) :
               l \in SlicePairs(shape[1], SliceHeads(comp), shape[2])} :
             shape \in SliceShapes(w, 3)}
    \cup
    UNION {{SliceCall("dim", shape, l, comp, meta) :
               l \in SliceLocs(shape[1], shape[2])} :
             shape \in SliceShapes(w, 2) \cup SliceShapes(w, 3)}
    \cup
    UNION {{SliceCall("dim.pos", shape, l, comp, meta) :
               l \in SlicePairs(shape[1], shape[2], shape[3])} :
             shape \in SliceShapes(w, 3)}

\* the calls on these components
SliceCalls(components) ==
    UNION {SliceCallsOn(cw[1], cw[2], MetaComponent(cw[1], cw[2])) :
             cw \in UNION {{<<comp, w>> : w \in SliceWidths(comp)} :
                              comp \in components}}

InitSlice ==
    /\ pc = "start"
    /\ raised = "none"
    /\ \E c \in SliceCalls(SlicedComponents) :
          /\ unit = c.unit
          /\ tensor_input = c.t
          /\ before = c.t
          /\ unit_locations_as_list = c.locs
          /\ replacing_tensor_input = c.r
          /\ component = c.comp
    /\ use_fast = FALSE
    /\ tensor_output = NoTensor
    /\ returned = NoTensor
    /\ FlatIdle
    /\ DimIdle
    /\ HookIdle
    /\ DoIdle

\* scatter_neurons(t, r, component, unit, L, model_type, model_config, use_fast)
ScatterSliced ==
    /\ pc = "start"
    /\ \E fast \in (IF unit = "pos" THEN BOOLEAN ELSE {FALSE}) :
          \E o \in scatter_neurons(tensor_input, replacing_tensor_input,
                                   component, unit, unit_locations_as_list,
                                   GPT2Model, GSConfig, fast) :
             /\ tensor_input' = o.input
             /\ returned' = o.returned
             /\ raised' = o.raised
             /\ use_fast' = fast
    /\ pc' = "scatter_sliced"
    /\ UNCHANGED <<before, replacing_tensor_input, component, unit,
                   unit_locations_as_list, tensor_output, flat_vars,
                   dim_vars, hook_vars, do_vars>>

NextSlice == ScatterSliced

SpecSlice == InitSlice /\ [][NextSlice]_vars

---------------------------------------------------------------------------
(* Claims about the sub-slice of a component *)

Sliced == pc = "scatter_sliced"

\* the window [start_index, end_index) of the component on the last axis
WindowStart == SeqMin(MetaComponent(component, before.shape[Len(before.shape)]).data)

WindowEnd == SeqMax(MetaComponent(component, before.shape[Len(before.shape)]).data) + 1

\* the position on the last axis of element k (from 1) of the tensor
FeatureOf(k) == Unravel(k - 1, before.shape)[Len(before.shape)]

InWindow(k) == WindowStart <= FeatureOf(k) /\ FeatureOf(k) < WindowEnd

\* every element at a feature position outside the window is as before, in
\* the tensor and in the tensor returned
OutsideUnchanged ==
    \A k \in 1..Len(before.data) :
       ~InWindow(k) =>
          /\ tensor_input.data[k] = before.data[k]
          /\ returned # NoTensor => returned.data[k] = before.data[k]

\* the component is a member of a fused triple: the split the head branch
\* takes its slot from
FusedTriple ==
    type_to_module_mapping[GPT2Model][component][3][1] = "split_three"

\* the unit branches that index the last axis with the window or with the
\* slot of the component, on the tensor rank the branch is written for
WindowedBranch ==
    \/ unit = "t" /\ Rank(before) = 2
    \/ unit = "pos" /\ Rank(before) = 3
    \/ unit \in {"h", "h.pos"} /\ Rank(before) = 3 /\ FusedTriple

\* C11 as stated: when the component declares a sub-slice of the last axis
\* with window [start_index, end_index), scatter_neurons changes only feature
\* positions inside the window, for every unit branch ("t", "pos", "h",
\* "h.pos" and the default branch).
SliceConfinement == Sliced => OutsideUnchanged

\* C11: when the component declares a sub-slice of the last axis with window
\* [start_index, end_index), scatter_neurons leaves every feature position
\* outside the window unchanged for unit "t" on a (batch, feature) tensor,
\* for unit "pos" on a (batch, seq, feature) tensor, and for units "h" and
\* "h.pos" on a (batch, seq, feature) tensor when the sub-slice is a member
\* of a fused triple, whether the call completes or raises.
SliceConfinementWindowed == (Sliced /\ WindowedBranch) => OutsideUnchanged

\* a composite head scatter into the second member of the fused triple that
\* completed, wrote inside the window and nowhere else
SliceConfinementWitness ==
    /\ Sliced
    /\ unit = "h.pos"
    /\ component = S_head_key_output
    /\ raised = "none"
    /\ WindowStart > 0
    /\ WindowEnd < before.shape[Len(before.shape)]
    /\ \E k \in 1..Len(before.data) :
          InWindow(k) /\ tensor_input.data[k] # before.data[k]
    /\ OutsideUnchanged

---------------------------------------------------------------------------
(* The calls of get_dimension_by_component *)

\* the values of a configuration attribute
ConfigValues == {PyNone} \cup {PyInt(v) : v \in {0 - 5, 0, 2, 5}}

\* configuration objects: each attribute missing, None or an int
Configs ==
    {Py("config", 0, <<>>, a, <<>>) :
        a \in UNION {[names -> ConfigValues] :
                        names \in SUBSET {S_n_embd, S_n_inner, S_n_head}}}

DimComponents ==
    (DOMAIN type_to_dimension_mapping[GPT2Model]) \cup {S_unregistered}

ModelTypes == {GPT2Model, GRUModel, LlamaModel}

InitDim ==
    /\ pc = "start"
    /\ raised = "none"
    /\ component \in DimComponents
    /\ call_model_type \in ModelTypes
    /\ call_model_config \in Configs
    /\ dimension = PyNone
    /\ tensor_input = NoTensor
    /\ before = NoTensor
    /\ replacing_tensor_input = NoTensor
    /\ unit = ""
    /\ unit_locations_as_list = <<>>
    /\ use_fast = FALSE
    /\ tensor_output = NoTensor
    /\ returned = NoTensor
    /\ FlatIdle
    /\ HookIdle
    /\ DoIdle

GetDimension ==
    /\ pc = "start"
    /\ LET d == get_dimension_by_component(call_model_type, call_model_config,
                                           component)
       IN  /\ raised' = d.raised
           /\ dimension' = IF d.raised = "none" THEN d.value ELSE PyNone
    /\ pc' = "get_dimension_by_component"
    /\ UNCHANGED <<call_model_type, call_model_config, flat_vars, gs_vars,
                   hook_vars, do_vars>>

NextDim == GetDimension

SpecDim == InitDim /\ [][NextDim]_vars

---------------------------------------------------------------------------
(* Claims about get_dimension_by_component *)

\* the call is done, for a model type of the table
Resolved ==
    /\ pc = "get_dimension_by_component"
    /\ call_model_type \in DOMAIN type_to_dimension_mapping

Registered ==
    Resolved /\ component \in DOMAIN type_to_dimension_mapping[call_model_type]

Proposals == type_to_dimension_mapping[call_model_type][component]

Evaluated(i) == dimension_of(call_model_config, Proposals[i])

\* a minimum of a non-empty set of numbers
Least(S) == CHOOSE i \in S : \A j \in S : i <= j

Unregistered ==
    (Resolved /\ ~Registered) => (raised = "none" /\ dimension = PyNone)

NumericFirst ==
    (Registered /\ isnumeric(Proposals[1])) => (raised = "none" /\ dimension = PyInt(Decimal(Proposals[1])))

\* C4 as stated: get_dimension_by_component returns the value of the first
\* proposal that resolves to a non-null value, a proposal that does not
\* resolve being skipped, so that with the proposals ["10*2", "20"] it
\* returns 20 when "10*2" does not resolve; a numeric proposal returns that
\* integer, and an unregistered component gives null.
FirstResolvingProposal ==
    /\ Unregistered
    /\ NumericFirst
    /\ Registered =>
          LET resolving == {i \in 1..Len(Proposals) :
                               /\ Evaluated(i).raised = "none"
                               /\ Evaluated(i).value.kind # "None"}
          IN  resolving # {} =>
                 /\ raised = "none"
                 /\ dimension = Evaluated(Least(resolving)).value

\* C4, amended: get_dimension_by_component evaluates the proposals in list
\* order and stops at the first that does not evaluate to null: it returns
\* that proposal's value, or raises what its evaluation raises (a missing
\* attribute, or null in A*k or A/B); only a proposal that evaluates to null
\* is skipped, and when all do the call fails an assertion.  With the
\* proposals ["10*2", "20"], "10" is looked up as an attribute, so the call
\* raises and 20 is not returned.  A numeric proposal returns that integer,
\* and an unregistered component gives null.
FirstNonNullProposal ==
    /\ Unregistered
    /\ NumericFirst
    /\ Registered =>
          LET stopping == {i \in 1..Len(Proposals) :
                              \/ Evaluated(i).raised # "none"
                              \/ Evaluated(i).value.kind # "None"}
          IN  IF stopping = {}
              THEN raised = "AssertionError"
              ELSE /\ raised = Evaluated(Least(stopping)).raised
                   /\ raised = "none" =>
                         dimension = Evaluated(Least(stopping)).value
    /\ (Registered /\ Proposals = MultipliedProposals) => raised = "AttributeError"

\* the first proposal null and skipped, the second multiplied
FirstNonNullProposalWitness ==
    /\ Registered
    /\ component = S_mlp_activation
    /\ S_n_inner \in DOMAIN call_model_config.attrs
    /\ call_model_config.attrs[S_n_inner] = PyNone
    /\ raised = "none"
    /\ dimension = PyInt(20)

---------------------------------------------------------------------------
(* The calls of get_module_hook *)

MaxBlocks == 2

\* block i of the model: an mlp, an attention module and a list of experts
Block(i) ==
    LET id == <<"h", "[">> \o str_of_nat(i) \o <<"]">>
    IN  Module(id,
               (<<"m", "l", "p">> :> Module(id \o <<".", "m", "l", "p">>, <<>>))
               @@ (<<"a", "t", "t", "n">> :> Module(id \o <<".", "a", "t", "t", "n">>, <<>>))
               @@ (<<"e">> :> ModuleList(id \o <<".", "e">>,
                                      <<Module(id \o <<".", "e", "[", "0", "]">>, <<>>)>>)))

\* a model of n blocks
Model(type, n) ==
    [type |-> type,
     root |-> Module(<<>>,
                     (<<"h">> :> ModuleList(<<"h">>, [i \in 1..n |-> Block(i - 1)]))
                     @@ (<<"n", "_", "l", "a", "y", "e", "r">> :> PyInt(n)))]

Models == {Model(type, n) : type \in ModelTypes, n \in 1..MaxBlocks}

\* literal paths: with a final input or output segment, with another final
\* segment, of one segment, and through a missing attribute, a bad index and
\* an attribute that is no module
LiteralComponents ==
    {<<"h", "[", "0", "]", ".", "m", "l", "p", ".", "o", "u", "t", "p", "u", "t">>, <<"h", "[", "1", "]", ".", "i", "n", "p", "u", "t">>, <<"h", "[", "0", "]", ".", "e", "[", "0", "]", ".", "o", "u", "t", "p", "u", "t">>, <<"h", ".", "0", ".", "a", "t", "t", "n", ".", "i", "n", "p", "u", "t">>,
     <<"h", ".", "o", "u", "t", "p", "u", "t">>, <<"h", "[", "0", "]", ".", "m", "l", "p", ".", "a", "c", "t">>, <<"h", "[", "0", "]", ".", "m", "l", "p">>, <<"h", "[", "1", "]", ".", "a", "t", "t", "n", ".", "o", "u", "t">>, <<"o", "u", "t", "p", "u", "t">>,
     <<"a", "c", "t">>, <<"m", "i", "s", "s", "i", "n", "g", ".", "i", "n", "p", "u", "t">>, <<"m", "i", "s", "s", "i", "n", "g", ".", "a", "c", "t">>, <<"h", "[", "x", "]", ".", "o", "u", "t", "p", "u", "t">>, <<"m", "l", "p", "[", "0", "]", ".", "o", "u", "t", "p", "u", "t">>,
     <<"n", "_", "l", "a", "y", "e", "r", ".", "o", "u", "t", "p", "u", "t">>, <<"n", "_", "l", "a", "y", "e", "r", ".", "a", "c", "t">>}

HookComponents ==
    (DOMAIN type_to_module_mapping[GPT2Model]) \cup LiteralComponents

Representations ==
    {[component |-> c, layer |-> PyInt(l), moe_key |-> m] :
        c \in HookComponents, l \in 0..MaxBlocks,
        m \in {PyNone, PyInt(0), PyInt(1)}}

Backends == {"native", "ndif", "other"}

InitHook ==
    /\ pc = "start"
    /\ raised = "none"
    /\ call_model \in Models
    /\ call_representation \in Representations
    /\ call_backend \in Backends
    /\ module_hook = NoHook
    /\ GSIdle
    /\ FlatIdle
    /\ DimIdle
    /\ DoIdle

GetModuleHook ==
    /\ pc = "start"
    /\ LET h == get_module_hook(call_model, call_representation, call_backend)
       IN  /\ raised' = h.raised
           /\ module_hook' = h.value
    /\ pc' = "get_module_hook"
    /\ UNCHANGED <<call_model, call_representation, call_backend, flat_vars,
                   gs_vars, dim_vars, do_vars>>

NextHook == GetModuleHook

SpecHook == InitHook /\ [][NextHook]_vars

---------------------------------------------------------------------------
(* Claims about get_module_hook *)

\* the model is of a registered type and the component is not in the table
\* of that type
Literal ==
    /\ call_model.type \in DOMAIN type_to_dimension_mapping
    /\ ~(/\ call_model.type \in DOMAIN type_to_module_mapping
          /\ call_representation.component
                \in DOMAIN type_to_module_mapping[call_model.type])

Segments == split(call_representation.component, ".")

FinalSegment == Segments[Len(Segments)]

\* the module the segments before the last name
Named ==
    getattr_for_torch_module(call_model.root,
                             join(SubSeq(Segments, 1, Len(Segments) - 1), "."))

HookOn(kind) ==
    IF Named.raised # "none"
    THEN raised = Named.raised /\ module_hook = NoHook
    ELSE IF Named.value.kind \in {"module", "list"} \/ call_backend = "ndif"
    THEN /\ raised = "none"
         /\ module_hook.module = Named.value.id
         /\ module_hook.hook_type = kind
         /\ module_hook.form = (IF call_backend = "native" THEN "method" ELSE "pair")
    ELSE raised = "AttributeError" /\ module_hook = NoHook

---------------------------------------------------------------------------
(* The calls of do_intervention *)

MaxRank == 5

\* bases of rank 1 to MaxRank, every axis of size 1 or 2
Bases == {Filled(s, 0) : s \in UNION {[1..r -> 1..2] : r \in 1..MaxRank}}

\* no source, a source of the shape of base, and a source of another rank
Sources(base) ==
    {NoTensor, Filled(base.shape, 50), Filled(<<base.shape[1]>>, 50)}

Interventions ==
    {[is_lambda |-> l, localist |-> c, keep_last_dim |-> k, wraps |-> w,
      effect |-> e] :
        l \in BOOLEAN, c \in BOOLEAN, k \in BOOLEAN, w \in BOOLEAN,
        e \in {"add", "interchange", "collect"}}

InitDo ==
    /\ pc = "start"
    /\ raised = "none"
    /\ base_representation \in Bases
    /\ source_representation \in Sources(base_representation)
    /\ call_intervention \in Interventions
    /\ invoked = FALSE
    /\ base_representation_f = NoTensor
    /\ intervention_output = NoOutput
    /\ GSIdle
    /\ FlatIdle
    /\ DimIdle
    /\ HookIdle

DoIntervention ==
    /\ pc = "start"
    /\ LET o == do_intervention(base_representation, source_representation,
                                call_intervention)
       IN  /\ raised' = o.raised
           /\ invoked' = o.invoked
           /\ base_representation_f' = o.given
           /\ intervention_output' = [wrapped |-> o.wrapped, output |-> o.output]
    /\ pc' = "do_intervention"
    /\ UNCHANGED <<base_representation, source_representation, call_intervention,
                   flat_vars, gs_vars, dim_vars, hook_vars>>

NextDo == DoIntervention

SpecDo == InitDo /\ [][NextDo]_vars

---------------------------------------------------------------------------
(* Claims about do_intervention *)

Structured == pc = "do_intervention" /\ ~call_intervention.is_lambda

\* the intervention returns a tensor of the shape of the tensor it is given
SameShape ==
    \/ call_intervention.effect = "add"
    \/ /\ call_intervention.effect = "interchange"
       /\ source_representation \in {NoTensor, Filled(base_representation.shape, 50)}

\* C5: for a structured intervention that returns a tensor of the shape it
\* was given and a base of rank 2, 3 or 4, do_intervention returns a tensor
\* (bare, or inside the InterventionOutput) of exactly the shape of base,
\* whatever keep_last_dim and localist are; a base of rank 2 is passed to the
\* intervention and its result returned without any reshape.
RestoresBaseShape ==
    (Structured /\ SameShape /\ Rank(base_representation) \in {2, 3, 4}
       /\ source_representation \in {NoTensor, Filled(base_representation.shape, 50)})
       =>
        /\ raised = "none"
        /\ invoked
        /\ intervention_output.output.shape = base_representation.shape
        /\ intervention_output.wrapped = call_intervention.wraps
        /\ Rank(base_representation) = 2 =>
              /\ base_representation_f = base_representation
              /\ intervention_output.output
                 = intervene(call_intervention, base_representation,
                             source_representation)

\* a rank-4 base flattened for the intervention and its result restored
RestoresBaseShapeWitness ==
    /\ Structured
    /\ call_intervention.effect = "add"
    /\ ~call_intervention.localist
    /\ ~call_intervention.keep_last_dim
    /\ call_intervention.wraps
    /\ base_representation.shape = <<2, 2, 2, 2>>
    /\ base_representation_f.shape = <<2, 2, 4>>
    /\ intervention_output.output.shape = <<2, 2, 2, 2>>

\* C6 as stated: for a structured intervention and a base whose rank is not
\* 2, 3 or 4, do_intervention fails without invoking the intervention,
\* whatever keep_last_dim and localist are.
RankOutsideFails ==
    (Structured /\ Rank(base_representation) \notin {2, 3, 4}) =>
        (raised # "none" /\ ~invoked)

\* C6, amended: for a structured intervention, do_intervention fails without
\* invoking the intervention when the rank of base is below 2 (IndexError),
\* and when it is above 4 and the intervention neither is localist nor keeps
\* the last dimension (AssertionError); with either of the two a base of
\* rank above 4 is passed to the intervention as it is and the result
\* returned as it is.
RankOutsideFailsUnlessOptedOut ==
    (Structured /\ Rank(base_representation) \notin {2, 3, 4}) =>
        LET opted_out == call_intervention.localist \/ call_intervention.keep_last_dim
        IN  /\ Rank(base_representation) < 2 =>
                  (raised = "IndexError" /\ ~invoked)
            /\ (Rank(base_representation) > 4 /\ ~opted_out) =>
                  (raised = "AssertionError" /\ ~invoked)
            /\ (Rank(base_representation) > 4 /\ opted_out) =>
                  /\ raised = "none"
                  /\ invoked
                  /\ base_representation_f = base_representation
                  /\ intervention_output.output
                     = intervene(call_intervention, base_representation,
                                 source_representation)

\* a base of rank 5 refused
RankOutsideFailsWitness ==
    /\ Structured
    /\ Rank(base_representation) = 5
    /\ ~call_intervention.localist
    /\ ~call_intervention.keep_last_dim
    /\ raised = "AssertionError"
    /\ ~invoked

---------------------------------------------------------------------------
(* The flatten / unflatten calls *)

Shapes(rank) ==
    {s \in [1..rank -> 1..MaxAxis \cup 1..MaxDim] :
        /\ \A i \in 1..(rank - 1) : s[i] <= MaxAxis
        /\ rank > 0 => s[rank] <= MaxDim}

Tensors(rank) == {Filled(s, seed) : s \in Shapes(rank), seed \in 0..MaxSeed}

InitFlat ==
    /\ pc = "start"
    /\ raised = "none"
    /\ tensor \in Tensors(3) \cup Tensors(4)
    /\ flattened = NoTensor
    /\ restored = NoTensor
    /\ num_arg = 0
    /\ GSIdle
    /\ DimIdle
    /\ HookIdle
    /\ DoIdle

Flatten3 ==
    /\ pc = "start"
    /\ Len(tensor.shape) = 3
    /\ LET r == bsd_to_b_sd(tensor)
       IN  /\ flattened' = r.value
           /\ raised' = r.raised
    /\ pc' = "bsd_to_b_sd"
    /\ UNCHANGED <<tensor, restored, num_arg, gs_vars, dim_vars, hook_vars,
                   do_vars>>

Unflatten3 ==
    /\ pc = "bsd_to_b_sd"
    /\ raised = "none"
    /\ \E s \in 1..MaxAxis :
          LET r == b_sd_to_bsd(flattened, s)
          IN  /\ num_arg' = s
              /\ restored' = r.value
              /\ raised' = r.raised
    /\ pc' = "b_sd_to_bsd"
    /\ UNCHANGED <<tensor, flattened, gs_vars, dim_vars, hook_vars, do_vars>>

Flatten4 ==
    /\ pc = "start"
    /\ Len(tensor.shape) = 4
    /\ LET r == bhsd_to_bs_hd(tensor)
       IN  /\ flattened' = r.value
           /\ raised' = r.raised
    /\ pc' = "bhsd_to_bs_hd"
    /\ UNCHANGED <<tensor, restored, num_arg, gs_vars, dim_vars, hook_vars,
                   do_vars>>

Unflatten4 ==
    /\ pc = "bhsd_to_bs_hd"
    /\ raised = "none"
    /\ \E h \in 1..MaxAxis :
          LET r == bs_hd_to_bhsd(flattened, h)
          IN  /\ num_arg' = h
              /\ restored' = r.value
              /\ raised' = r.raised
    /\ pc' = "bs_hd_to_bhsd"
    /\ UNCHANGED <<tensor, flattened, gs_vars, dim_vars, hook_vars, do_vars>>

NextFlat == Flatten3 \/ Unflatten3 \/ Flatten4 \/ Unflatten4

SpecFlat == InitFlat /\ [][NextFlat]_vars

---------------------------------------------------------------------------
(* C3: flattening a rank-3 tensor of shape (b, s, d) and unflattening it    *)
(* with the same s, or merging the heads of a rank-4 tensor of shape        *)
(* (b, h, s, d) and splitting them with the same h, returns a tensor with   *)
(* the shape and the elements of the original, and the call does not raise. *)
FlattenRoundTrip ==
    /\ (pc = "b_sd_to_bsd" /\ num_arg = tensor.shape[2]) =>
           (raised = "none" /\ restored = tensor)
    /\ (pc = "bs_hd_to_bhsd" /\ num_arg = tensor.shape[2]) =>
           (raised = "none" /\ restored = tensor)

\* a head-merge and split that moved elements: heads and positions both > 1
FlattenRoundTripWitness ==
    /\ pc = "bs_hd_to_bhsd"
    /\ num_arg = tensor.shape[2]
    /\ tensor.shape[2] > 1 /\ tensor.shape[3] > 1
    /\ flattened.data # tensor.data
    /\ restored = tensor

=============================================================================
